---- MODULE Spec2Model ----
(***************************************************************************)
(* Model of eval.c: the expression evaluators (eval_true .. eval_comma),   *)
(* the bftw() callback cmdline_callback, and the context it threads        *)
(* through one visit (struct eval_state).                                  *)
(*                                                                         *)
(* One visit is one action: cmdline_callback draws the visit event and the *)
(* outcomes of the system calls from small sets and runs the whole         *)
(* callback, expression tree included.  Everything the callback does is    *)
(* recorded, in order, in state.log: every call and return of an           *)
(* evaluator (with the node it was handed), every assignment to            *)
(* state->action, every system call and every write to stdout/stderr.      *)
(***************************************************************************)
EXTENDS Integers, Sequences, FiniteSets, TLC

VARIABLES cl, pc, ftwbuf, state, result,
          rlimit, nopenfd, iroot, retval, calls, pending, hist

\* The state of eval_cmdline and of the bftw() call it is in.
runvars == <<rlimit, nopenfd, iroot, retval, calls, pending, hist>>

vars == <<cl, pc, ftwbuf, state, result, runvars>>

(***************************************************************************)
(* Bounds of the model.                                                    *)
(***************************************************************************)
\* Visit events carry a depth in 0..DepthBound; -maxdepth ranges over it too.
DepthBound == 2
\* The soft limits getrlimit() reports include 0..RlimBound, at each multiple
\* of 2^31 the model takes.
RlimBound == 16
\* Nested evaluator calls the C stack holds before it overflows.  Every tree
\* of the model is shallower, so only unbounded recursion reaches it.
StackLimit == 5

(***************************************************************************)
(* bftw_action, bftw_visit, bftw_typeflag (bftw.h), as used by eval.c.     *)
(***************************************************************************)
BFTW_CONTINUE == "BFTW_CONTINUE"
BFTW_SKIP_SUBTREE == "BFTW_SKIP_SUBTREE"
BFTW_STOP == "BFTW_STOP"

BFTW_PRE == "BFTW_PRE"
BFTW_POST == "BFTW_POST"

BFTW_DIR == "BFTW_DIR"
BFTW_REG == "BFTW_REG"
BFTW_ERROR == "BFTW_ERROR"

Typeflags == {BFTW_DIR, BFTW_REG, BFTW_ERROR}

(***************************************************************************)
(* Expression nodes (struct expression): the evaluator, the two payload    *)
(* fields and the two children.  A character string is a tuple of          *)
(* one-character strings.                                                  *)
(***************************************************************************)
NULL == [eval |-> "NULL"]
NULLSTR == <<"(null)">>

Leaf(fn, idata, sdata) ==
    [eval |-> fn, idata |-> idata, sdata |-> sdata, lhs |-> NULL, rhs |-> NULL]

\* A unary node: only rhs is a child.  Its payload fields are not used by
\* eval_not; p gives what they hold.
Unary(fn, p, rhs) ==
    [eval |-> fn, idata |-> p.idata, sdata |-> p.sdata, lhs |-> NULL, rhs |-> rhs]

Binary(fn, lhs, rhs) ==
    [eval |-> fn, idata |-> "0", sdata |-> NULLSTR, lhs |-> lhs, rhs |-> rhs]

ETrue == Leaf("eval_true", "0", NULLSTR)
EFalse == Leaf("eval_false", "0", NULLSTR)
EAccess == Leaf("eval_access", "R_OK", NULLSTR)
EDelete == Leaf("eval_delete", "0", NULLSTR)
EPrune == Leaf("eval_prune", "0", NULLSTR)
EHidden == Leaf("eval_hidden", "0", NULLSTR)
ENohidden == Leaf("eval_nohidden", "0", NULLSTR)
EName == Leaf("eval_name", "0", <<".", "*">>)
EPath == Leaf("eval_path", "0", <<"a", "/", "*">>)
EPrint == Leaf("eval_print", "0", NULLSTR)
EPrint0 == Leaf("eval_print0", "0", NULLSTR)
EQuit == Leaf("eval_quit", "0", NULLSTR)
EType == Leaf("eval_type", BFTW_DIR, NULLSTR)

AllLeaves ==
    {ETrue, EFalse, EAccess, EDelete, EPrune, EHidden, ENohidden, EName,
     EPath, EPrint, EPrint0, EQuit, EType}

\* What the payload fields of a NOT node may hold.
NotPayloads ==
    {[idata |-> "0", sdata |-> NULLSTR], [idata |-> BFTW_REG, sdata |-> <<"*">>]}

PlainNot(rhs) == Unary("eval_not", [idata |-> "0", sdata |-> NULLSTR], rhs)

BinaryOps == {"eval_and", "eval_or", "eval_comma"}

LeftLeaves == {ETrue, EFalse, EDelete, EPrune, ENohidden}
RightLeaves == {ETrue, EFalse, EDelete, EPrune, EQuit, EPrint0}

\* Trees of depth 3, so that every combinator also occurs below another one.
DeepExprs ==
    {PlainNot(PlainNot(ETrue)),
     PlainNot(Binary("eval_and", ETrue, EPrune)),
     PlainNot(Binary("eval_comma", EDelete, EQuit)),
     Binary("eval_and", PlainNot(EFalse), EPrune),
     Binary("eval_or", PlainNot(ETrue), EQuit),
     Binary("eval_comma", PlainNot(EPrune), EDelete),
     Binary("eval_and", Binary("eval_or", EFalse, ENohidden), EPrint0),
     Binary("eval_or", Binary("eval_and", EDelete, EFalse), EPrune),
     Binary("eval_comma", Binary("eval_comma", EDelete, EPrune), EQuit),
     Binary("eval_comma", EQuit, Binary("eval_and", ENohidden, EDelete)),
     Binary("eval_and", ETrue, Binary("eval_comma", EDelete, EPrune)),
     Binary("eval_or", EFalse, Binary("eval_or", ENohidden, EQuit)),
     Binary("eval_or", Binary("eval_and", EFalse, EQuit),
                       Binary("eval_or", ETrue, EDelete))}

Exprs ==
    AllLeaves
    \cup {Unary("eval_not", p, e) : p \in NotPayloads, e \in AllLeaves}
    \cup {Binary(op[1], op[2], op[3]) : op \in BinaryOps \X LeftLeaves \X RightLeaves}
    \cup DeepExprs

\* Trees run under every depth configuration.
DepthExprs == {ETrue, EPrint, EPrune, EDelete, Binary("eval_comma", EPrint, EPrint)}

(***************************************************************************)
(* The parsed command line (cmdline): expression, depth bounds, flags      *)
(* (only BFTW_DEPTH matters here) and the color table (present or not).    *)
(***************************************************************************)
Cmdline(e, mn, mx, d, c) ==
    [expr |-> e, mindepth |-> mn, maxdepth |-> mx, depth_flag |-> d, colors |-> c]

Cmdlines ==
    {Cmdline(e, 0, DepthBound, FALSE, FALSE) : e \in Exprs}
    \cup {Cmdline(c[1], c[2], c[3], c[4], c[5]) :
            c \in DepthExprs \X (0..1) \X (0..DepthBound) \X BOOLEAN \X BOOLEAN}

(***************************************************************************)
(* Visit events (struct BFTW) the engine hands to the callback.            *)
(***************************************************************************)
Paths ==
    {[path |-> <<".", "x">>, nameoff |-> 0],
     [path |-> <<"a", "/", ".", "x">>, nameoff |-> 2],
     [path |-> <<"a", "/", "b">>, nameoff |-> 2]}

NoEvent == [typeflag |-> "none"]

\* C's path[i], 0-based, with the terminating NUL.
CharAt(path, i) == IF i + 1 <= Len(path) THEN path[i + 1] ELSE "\\0"

\* path + off
StrFrom(path, off) == SubSeq(path, off + 1, Len(path))

(***************************************************************************)
(* The context of one visit (struct eval_state) and the record of what the *)
(* visit did.  st.ftwbuf, st.action and st.statbuf are the struct's        *)
(* fields (st.statbuf says whether the buffer was filled); st.fs is the    *)
(* file at_fd/at_path names, with the outcomes its system calls will have; *)
(* st.ret is the return value of the evaluator that returned last;         *)
(* st.crashed says that the process died; st.log is the record.            *)
(***************************************************************************)
Emit(st, ev, fn, pos, lvl, arg, res) ==
    [st EXCEPT !.log = Append(@, [ev |-> ev, fn |-> fn, pos |-> pos, lvl |-> lvl,
                                  arg |-> arg, res |-> res, act |-> st.action])]

Return(st, b) == [st EXCEPT !.ret = b]

\* state->action = a
SetAction(st, a, fn, pos, lvl) ==
    Emit([st EXCEPT !.action = a], "set", fn, pos, lvl, a, TRUE)

\* A trap: a load through a null pointer, or the stack running out.
Crash(st, fn, pos, lvl, why) ==
    [Emit(st, "crash", fn, pos, lvl, why, FALSE) EXCEPT !.crashed = TRUE]

\* print_error(): one diagnostic on stderr.
print_error(st, fn, pos, lvl) == Emit(st, "stderr", fn, pos, lvl, "print_error", TRUE)

\* perror(): one diagnostic on stderr.
perror(st, fn, pos, lvl, what) == Emit(st, "stderr", fn, pos, lvl, what, TRUE)

\* fnmatch(pat, str, 0) == 0: *, ? and literal characters; with flags 0
\* neither '/' nor a leading '.' is special.
RECURSIVE fnmatch(_, _)
fnmatch(pat, str) ==
    IF pat = <<>> THEN str = <<>>
    ELSE IF Head(pat) = "*"
         THEN fnmatch(Tail(pat), str) \/ (str # <<>> /\ fnmatch(pat, Tail(str)))
    ELSE IF Head(pat) = "?"
         THEN str # <<>> /\ fnmatch(Tail(pat), Tail(str))
    ELSE str # <<>> /\ Head(str) = Head(pat) /\ fnmatch(Tail(pat), Tail(str))

\* faccessat(at_fd, at_path, mode, AT_SYMLINK_NOFOLLOW) == 0; mode 0 is F_OK.
faccessat(fs, mode) == fs.exists /\ (mode = "0" \/ fs.access_ok)

\* unlinkat(at_fd, at_path, flag) == 0
unlinkat(fs) == fs.exists /\ fs.unlink_ok

\* fstatat(at_fd, at_path, &state->statbuf, AT_SYMLINK_NOFOLLOW) == 0
fstatat(fs) == fs.exists /\ fs.stat_ok

fill_statbuf(st, fn, pos, lvl) ==
    IF st.ftwbuf.statbuf # "NULL" THEN st
    ELSE LET s1 == Emit(st, "fstatat", fn, pos, lvl, "", fstatat(st.fs))
         IN IF fstatat(st.fs)
            THEN [s1 EXCEPT !.statbuf = "filled", !.ftwbuf.statbuf = "&state->statbuf"]
            ELSE perror(s1, fn, pos, lvl, "fstatat()")

(***************************************************************************)
(* The evaluators.  Each takes the node it is handed (expr), and the       *)
(* context (st); pos is where that node sits in the tree (a sequence of    *)
(* "l"/"r" from the root) and lvl the depth of the call, both only for the *)
(* record.                                                                 *)
(***************************************************************************)
RECURSIVE Call(_, _, _, _, _)

\* target->eval(arg, state)
CallPtr(target, arg, argpos, lvl, st) ==
    IF target = NULL THEN Crash(st, "NULL", argpos, lvl, "null dereference")
    ELSE Call(target.eval, arg, argpos, lvl, st)

eval_true(expr, pos, lvl, st) == Return(st, TRUE)

eval_false(expr, pos, lvl, st) == Return(st, FALSE)

eval_access(expr, pos, lvl, st) ==
    LET ok == faccessat(st.fs, expr.idata)
    IN Return(Emit(st, "faccessat", "eval_access", pos, lvl, expr.idata, ok), ok)

\* Mutant: the leaf reports whether the removal succeeded.
eval_delete_reports(expr, pos, lvl, st) ==
    LET flag == IF st.ftwbuf.typeflag = BFTW_DIR THEN "AT_REMOVEDIR" ELSE "0"
        ok == unlinkat(st.fs)
        s1 == Emit([st EXCEPT !.fs.exists = @ /\ ~ok],
                   "unlinkat", "eval_delete", pos, lvl, flag, ok)
        s2 == IF ~ok
              THEN SetAction(print_error(s1, "eval_delete", pos, lvl),
                             BFTW_STOP, "eval_delete", pos, lvl)
              ELSE s1
    IN Return(s2, ok)

eval_delete(expr, pos, lvl, st) ==
    LET flag == IF st.ftwbuf.typeflag = BFTW_DIR THEN "AT_REMOVEDIR" ELSE "0"
        ok == unlinkat(st.fs)
        s1 == Emit([st EXCEPT !.fs.exists = @ /\ ~ok],
                   "unlinkat", "eval_delete", pos, lvl, flag, ok)
        s2 == IF ~ok
              THEN SetAction(print_error(s1, "eval_delete", pos, lvl),
                             BFTW_STOP, "eval_delete", pos, lvl)
              ELSE s1
    IN Return(s2, TRUE)

eval_prune(expr, pos, lvl, st) ==
    Return(SetAction(st, BFTW_SKIP_SUBTREE, "eval_prune", pos, lvl), TRUE)

\* Mutant: the test for a basename at offset 0 is dropped.
eval_hidden_anyoffset(expr, pos, lvl, st) ==
    Return(st, CharAt(st.ftwbuf.path, st.ftwbuf.nameoff) = ".")

eval_hidden(expr, pos, lvl, st) ==
    Return(st, st.ftwbuf.nameoff > 0
               /\ CharAt(st.ftwbuf.path, st.ftwbuf.nameoff) = ".")

eval_nohidden(expr, pos, lvl, st) ==
    LET s1 == Call("eval_hidden", expr, pos, lvl + 1, st)
    IN IF s1.crashed THEN s1
       ELSE IF s1.ret
       THEN LET s2 == Call("eval_prune", expr, pos, lvl + 1, s1)
            IN IF s2.crashed THEN s2 ELSE Return(s2, FALSE)
       ELSE Return(s1, TRUE)

eval_name(expr, pos, lvl, st) ==
    IF expr.sdata = NULLSTR THEN Crash(st, "eval_name", pos, lvl, "fnmatch(NULL)")
    ELSE Return(st, fnmatch(expr.sdata, StrFrom(st.ftwbuf.path, st.ftwbuf.nameoff)))

eval_path(expr, pos, lvl, st) ==
    IF expr.sdata = NULLSTR THEN Crash(st, "eval_path", pos, lvl, "fnmatch(NULL)")
    ELSE Return(st, fnmatch(expr.sdata, st.ftwbuf.path))

eval_print(expr, pos, lvl, st) ==
    LET s1 == IF cl.colors THEN fill_statbuf(st, "eval_print", pos, lvl) ELSE st
    IN Return(Emit(s1, "stdout", "eval_print", pos, lvl, "pretty_print", TRUE), TRUE)

eval_print0(expr, pos, lvl, st) ==
    Return(Emit(st, "stdout", "eval_print0", pos, lvl, "fwrite", TRUE), TRUE)

eval_quit(expr, pos, lvl, st) ==
    Return(SetAction(st, BFTW_STOP, "eval_quit", pos, lvl), TRUE)

\* Mutant: a test that clears the directive when it does not match.
eval_type_clears(expr, pos, lvl, st) ==
    IF st.ftwbuf.typeflag = expr.idata THEN Return(st, TRUE)
    ELSE Return(SetAction(st, BFTW_CONTINUE, "eval_type", pos, lvl), FALSE)

eval_type(expr, pos, lvl, st) == Return(st, st.ftwbuf.typeflag = expr.idata)

eval_not(expr, pos, lvl, st) ==
    LET s1 == CallPtr(expr.rhs, expr, pos, lvl + 1, st)
    IN IF s1.crashed THEN s1 ELSE Return(s1, ~s1.ret)

\* Mutant: both sides are evaluated before they are combined.
eval_and_eager(expr, pos, lvl, st) ==
    LET s1 == CallPtr(expr.lhs, expr.lhs, Append(pos, "l"), lvl + 1, st)
        s2 == CallPtr(expr.rhs, expr.rhs, Append(pos, "r"), lvl + 1, s1)
    IN IF s1.crashed THEN s1
       ELSE IF s2.crashed THEN s2
       ELSE Return(s2, s1.ret /\ s2.ret)

eval_and(expr, pos, lvl, st) ==
    LET s1 == CallPtr(expr.lhs, expr.lhs, Append(pos, "l"), lvl + 1, st)
    IN IF s1.crashed THEN s1
       ELSE IF s1.ret THEN CallPtr(expr.rhs, expr.rhs, Append(pos, "r"), lvl + 1, s1)
       ELSE Return(s1, FALSE)

eval_or(expr, pos, lvl, st) ==
    LET s1 == CallPtr(expr.lhs, expr.lhs, Append(pos, "l"), lvl + 1, st)
    IN IF s1.crashed THEN s1
       ELSE IF s1.ret THEN Return(s1, TRUE)
       ELSE CallPtr(expr.rhs, expr.rhs, Append(pos, "r"), lvl + 1, s1)

\* Mutant: the right side runs only when the left side is true.
eval_comma_shortcut(expr, pos, lvl, st) ==
    LET s1 == CallPtr(expr.lhs, expr.lhs, Append(pos, "l"), lvl + 1, st)
    IN IF s1.crashed THEN s1
       ELSE IF s1.ret THEN CallPtr(expr.rhs, expr.rhs, Append(pos, "r"), lvl + 1, s1)
       ELSE Return(s1, FALSE)

eval_comma(expr, pos, lvl, st) ==
    LET s1 == CallPtr(expr.lhs, expr.lhs, Append(pos, "l"), lvl + 1, st)
    IN IF s1.crashed THEN s1
       ELSE CallPtr(expr.rhs, expr.rhs, Append(pos, "r"), lvl + 1, s1)

\* The function a node's eval pointer names.
Dispatch(fn, expr, pos, lvl, st) ==
    CASE fn = "eval_true" -> eval_true(expr, pos, lvl, st)
      [] fn = "eval_false" -> eval_false(expr, pos, lvl, st)
      [] fn = "eval_access" -> eval_access(expr, pos, lvl, st)
      [] fn = "eval_delete" -> eval_delete(expr, pos, lvl, st)
      [] fn = "eval_prune" -> eval_prune(expr, pos, lvl, st)
      [] fn = "eval_hidden" -> eval_hidden(expr, pos, lvl, st)
      [] fn = "eval_nohidden" -> eval_nohidden(expr, pos, lvl, st)
      [] fn = "eval_name" -> eval_name(expr, pos, lvl, st)
      [] fn = "eval_path" -> eval_path(expr, pos, lvl, st)
      [] fn = "eval_print" -> eval_print(expr, pos, lvl, st)
      [] fn = "eval_print0" -> eval_print0(expr, pos, lvl, st)
      [] fn = "eval_quit" -> eval_quit(expr, pos, lvl, st)
      [] fn = "eval_type" -> eval_type(expr, pos, lvl, st)
      [] fn = "eval_not" -> eval_not(expr, pos, lvl, st)
      [] fn = "eval_and" -> eval_and(expr, pos, lvl, st)
      [] fn = "eval_or" -> eval_or(expr, pos, lvl, st)
      [] fn = "eval_comma" -> eval_comma(expr, pos, lvl, st)

\* One call of evaluator fn on node expr: entry, body, return.
Call(fn, expr, pos, lvl, st) ==
    IF lvl > StackLimit THEN Crash(st, fn, pos, lvl, "stack overflow")
    ELSE LET s1 == Dispatch(fn, expr, pos, lvl, Emit(st, "call", fn, pos, lvl, "", FALSE))
         IN IF s1.crashed THEN s1 ELSE Emit(s1, "ret", fn, pos, lvl, "", s1.ret)

(***************************************************************************)
(* cmdline_callback, on event fb with the file in condition fs.            *)
(***************************************************************************)
\* eval_state state = { .ftwbuf = ftwbuf, .cl = cl, .action = BFTW_CONTINUE }
NewState(fb, fs) ==
    [ftwbuf |-> fb, action |-> BFTW_CONTINUE, statbuf |-> "unset", fs |-> fs,
     ret |-> FALSE, crashed |-> FALSE, log |-> <<>>]

\* Mutant: the preset is applied only beyond maxdepth.
Preset_beyond(st) ==
    IF st.ftwbuf.depth > cl.maxdepth
    THEN [st EXCEPT !.action = BFTW_SKIP_SUBTREE]
    ELSE st

\* if (ftwbuf->depth >= cl->maxdepth) state.action = BFTW_SKIP_SUBTREE
Preset(st) ==
    IF st.ftwbuf.depth >= cl.maxdepth
    THEN [st EXCEPT !.action = BFTW_SKIP_SUBTREE]
    ELSE st

\* Mutant: the flag moves every entry to the post-order event.
expected_visit_anytype(fb) ==
    IF cl.depth_flag /\ fb.depth < cl.maxdepth
    THEN BFTW_POST
    ELSE BFTW_PRE

\* Mutant: directories are evaluated on the post-order event, flag or not.
expected_visit_dirs_post(fb) ==
    IF fb.typeflag = BFTW_DIR /\ fb.depth < cl.maxdepth
    THEN BFTW_POST
    ELSE BFTW_PRE

expected_visit(fb) ==
    IF cl.depth_flag /\ fb.typeflag = BFTW_DIR /\ fb.depth < cl.maxdepth
    THEN BFTW_POST
    ELSE BFTW_PRE

\* Mutant: mindepth is not checked.
ShouldEval_nomin(fb) ==
    /\ fb.visit = expected_visit(fb)
    /\ fb.depth <= cl.maxdepth

\* Mutant: maxdepth is not checked.
ShouldEval_nomax(fb) ==
    /\ fb.visit = expected_visit(fb)
    /\ fb.depth >= cl.mindepth

\* Mutant: the visit phase is not checked.
ShouldEval_anyphase(fb) ==
    /\ fb.depth >= cl.mindepth
    /\ fb.depth <= cl.maxdepth

ShouldEval(fb) ==
    /\ fb.visit = expected_visit(fb)
    /\ fb.depth >= cl.mindepth
    /\ fb.depth <= cl.maxdepth

\* Mutant: the error sentinel is reported but not returned on.
Callback_evalerror(fb, fs) ==
    LET st == Preset(IF fb.typeflag = BFTW_ERROR
                     THEN print_error(NewState(fb, fs), "cmdline_callback", <<>>, 0)
                     ELSE NewState(fb, fs))
    IN IF ShouldEval(fb) THEN CallPtr(cl.expr, cl.expr, <<>>, 1, st) ELSE st

\* The context when the callback ends.
Callback(fb, fs) ==
    IF fb.typeflag = BFTW_ERROR
    THEN print_error(NewState(fb, fs), "cmdline_callback", <<>>, 0)
    ELSE LET st == Preset(NewState(fb, fs))
         IN IF ShouldEval(fb) THEN CallPtr(cl.expr, cl.expr, <<>>, 1, st) ELSE st

\* The directive the callback returns.
ReturnValue(fb, st) ==
    IF fb.typeflag = BFTW_ERROR THEN BFTW_SKIP_SUBTREE ELSE st.action

Events ==
    {[path |-> p.path, nameoff |-> p.nameoff, depth |-> d, typeflag |-> t,
      visit |-> v, statbuf |-> sb] :
        p \in Paths, d \in 0..DepthBound, t \in Typeflags,
        v \in {BFTW_PRE, BFTW_POST}, sb \in {"NULL", "engine"}}

Files ==
    {[exists |-> TRUE, unlink_ok |-> u, access_ok |-> a, stat_ok |-> s] :
        u \in BOOLEAN, a \in BOOLEAN, s \in BOOLEAN}

\* eval_cmdline has not been entered.
NoRun ==
    /\ rlimit = [ok |-> FALSE, inf |-> FALSE, hi |-> 0, lo |-> 0]
    /\ nopenfd = 0
    /\ iroot = 0
    /\ retval = 0
    /\ calls = <<>>
    /\ pending = <<>>
    /\ hist = <<>>

Init ==
    /\ cl \in Cmdlines
    /\ pc = "idle"
    /\ ftwbuf = NoEvent
    /\ state = NewState(NoEvent, [exists |-> FALSE])
    /\ result = "none"
    /\ NoRun

\* The engine calls the callback for one visit.
cmdline_callback ==
    /\ pc = "idle"
    /\ \E fb \in Events, fs \in Files :
          /\ (fb.statbuf = "engine" => fs.stat_ok)
          /\ LET st == Callback(fb, fs)
             IN /\ state' = st
                /\ ftwbuf' = st.ftwbuf
                /\ IF st.crashed
                   THEN pc' = "crashed" /\ result' = "none"
                   ELSE pc' = "returned" /\ result' = ReturnValue(fb, st)
    /\ UNCHANGED <<cl, runvars>>

\* The engine takes the directive and goes on to its next visit.
bftw_next ==
    /\ pc = "returned"
    /\ pc' = "idle"
    /\ ftwbuf' = NoEvent
    /\ state' = NewState(NoEvent, [exists |-> FALSE])
    /\ result' = "none"
    /\ UNCHANGED <<cl, runvars>>

Next == cmdline_callback \/ bftw_next

Spec == Init /\ [][Next]_vars

(***************************************************************************)
(* infer_nopenfd.  getrlimit() either fails or reports the soft limit,     *)
(* which is RLIM_INFINITY or a value of rlim_t, an unsigned type wider     *)
(* than int: the value hi * 2^31 + lo, with lo in 0..INT_MAX.              *)
(***************************************************************************)
INT_MAX == 2147483647

\* ret = rl.rlim_cur: the conversion to int keeps the low 32 bits.
ToInt(rl) ==
    IF rl.hi % 2 = 0 THEN rl.lo ELSE (rl.lo - INT_MAX) - 1

infer_nopenfd(rl) ==
    LET ret == IF rl.ok /\ ~rl.inf THEN ToInt(rl) ELSE 4096
    IN IF ret > 3 THEN ret - 3 ELSE ret

Rlimits ==
    {[ok |-> TRUE, inf |-> FALSE, hi |-> h, lo |-> l] :
        h \in 0..2, l \in (0..RlimBound) \cup {256, INT_MAX - 1, INT_MAX}}
    \cup {[ok |-> TRUE, inf |-> TRUE, hi |-> 0, lo |-> 0],
          [ok |-> FALSE, inf |-> FALSE, hi |-> 0, lo |-> 0]}

(***************************************************************************)
(* The engine, bftw(): for a root it emits the events of the tree under    *)
(* it, a directory's pre-order event, then its descendants, then its       *)
(* post-order event; it drops the descendants of a directory whose         *)
(* pre-order visit returns skip-subtree, ends the traversal of the root    *)
(* when a visit returns stop, and may fail at any point.                   *)
(***************************************************************************)
Event(path, nameoff, depth, typeflag, visit) ==
    [path |-> path, nameoff |-> nameoff, depth |-> depth, typeflag |-> typeflag,
     visit |-> visit, statbuf |-> "NULL"]

RootA == <<"a">>
RootC == <<"c">>

bftw_events(root) ==
    IF root = RootA
    THEN <<Event(<<"a">>, 0, 0, BFTW_DIR, BFTW_PRE),
           Event(<<"a", "/", ".", "x">>, 2, 1, BFTW_DIR, BFTW_PRE),
           Event(<<"a", "/", ".", "x", "/", "b">>, 5, 2, BFTW_REG, BFTW_PRE),
           Event(<<"a", "/", ".", "x">>, 2, 1, BFTW_DIR, BFTW_POST),
           Event(<<"a", "/", "b">>, 2, 1, BFTW_REG, BFTW_PRE),
           Event(<<"a">>, 0, 0, BFTW_DIR, BFTW_POST)>>
    ELSE <<Event(<<"c">>, 0, 0, BFTW_DIR, BFTW_PRE),
           Event(<<"c", "/", "b">>, 2, 1, BFTW_REG, BFTW_PRE),
           Event(<<"c">>, 0, 0, BFTW_DIR, BFTW_POST)>>

\* Path p lies below directory d.
IsDescendant(p, d) ==
    /\ Len(p) > Len(d) + 1
    /\ SubSeq(p, 1, Len(d)) = d
    /\ p[Len(d) + 1] = "/"

\* The events still to come after event fb was answered with directive r.
bftw_after(fb, r, rest) ==
    IF r = BFTW_STOP THEN <<>>
    ELSE IF r = BFTW_SKIP_SUBTREE /\ fb.visit = BFTW_PRE /\ fb.typeflag = BFTW_DIR
    THEN SelectSeq(rest, LAMBDA e : ~IsDescendant(e.path, fb.path))
    ELSE rest

(***************************************************************************)
(* eval_cmdline: the budget, then one bftw() call per root.                *)
(***************************************************************************)
RunExprs == {ETrue, EPrune, ENohidden, EQuit, EDelete}

RootLists == {<<RootA>>, <<RootA, RootC>>, <<RootC, RootA>>}

RunCmdlines ==
    {Cmdline(c[1], c[2], c[3], c[4], FALSE) @@ [roots |-> c[5]] :
        c \in RunExprs \X (0..1) \X {1, DepthBound} \X BOOLEAN \X RootLists}

RunFiles ==
    {[exists |-> TRUE, unlink_ok |-> u, access_ok |-> TRUE, stat_ok |-> TRUE] :
        u \in BOOLEAN}

\* Mutant: the result of the last root is what is returned.
LoopRet_last(ret, rc) == rc

\* if (bftw(...) != 0) ret = -1
LoopRet(ret, rc) == IF rc # 0 THEN -1 ELSE ret

InitRun ==
    /\ cl \in RunCmdlines
    /\ pc = "start"
    /\ ftwbuf = NoEvent
    /\ state = NewState(NoEvent, [exists |-> FALSE])
    /\ result = "none"
    /\ rlimit \in {r \in Rlimits : ~r.ok \/ (r.hi = 0 /\ r.lo = 256)}
    /\ nopenfd = 0
    /\ iroot = 0
    /\ retval = 0
    /\ calls = <<>>
    /\ pending = <<>>
    /\ hist = <<>>

\* int ret = 0; int nopenfd = infer_nopenfd();
eval_cmdline_begin ==
    /\ pc = "start"
    /\ nopenfd' = infer_nopenfd(rlimit)
    /\ retval' = 0
    /\ iroot' = 0
    /\ pc' = "loop"
    /\ UNCHANGED <<cl, ftwbuf, state, result, rlimit, calls, pending, hist>>

\* for (i < cl->nroots): bftw(cl->roots[i], cmdline_callback, nopenfd, ...)
eval_cmdline_bftw ==
    /\ pc = "loop"
    /\ iroot < Len(cl.roots)
    /\ pending' = bftw_events(cl.roots[iroot + 1])
    /\ pc' = "bftw"
    /\ UNCHANGED <<cl, ftwbuf, state, result, rlimit, nopenfd, iroot, retval, calls, hist>>

\* The engine calls cmdline_callback on its next event.
bftw_callback ==
    /\ pc = "bftw"
    /\ pending # <<>>
    /\ \E fs \in RunFiles :
          LET fb == Head(pending)
              st == Callback(fb, fs)
              r == IF st.crashed THEN "none" ELSE ReturnValue(fb, st)
          IN /\ state' = st
             /\ ftwbuf' = st.ftwbuf
             /\ result' = r
             /\ pc' = IF st.crashed THEN "crashed" ELSE "bftw"
             /\ pending' = bftw_after(fb, r, Tail(pending))
             /\ hist' = Append(hist,
                    [root |-> iroot + 1, path |-> fb.path, depth |-> fb.depth,
                     typeflag |-> fb.typeflag, visit |-> fb.visit,
                     evaluated |-> \E k \in 1..Len(st.log) : st.log[k].ev = "call",
                     result |-> r])
    /\ UNCHANGED <<cl, rlimit, nopenfd, iroot, retval, calls>>

\* bftw() returns rc to the loop of eval_cmdline.
LoopStep(rc) ==
    /\ calls' = Append(calls, [root |-> cl.roots[iroot + 1], rc |-> rc])
    /\ retval' = LoopRet(retval, rc)
    /\ iroot' = iroot + 1
    /\ pending' = <<>>
    /\ pc' = "loop"
    /\ UNCHANGED <<cl, ftwbuf, state, result, rlimit, nopenfd, hist>>

\* The traversal of the root is over: bftw() returns 0.
bftw_return ==
    /\ pc = "bftw"
    /\ pending = <<>>
    /\ LoopStep(0)

\* The engine fails: bftw() returns -1, and eval_cmdline reports it.
bftw_error ==
    /\ pc = "bftw"
    /\ LoopStep(-1)

\* return ret;
eval_cmdline_return ==
    /\ pc = "loop"
    /\ iroot = Len(cl.roots)
    /\ pc' = "done"
    /\ UNCHANGED <<cl, ftwbuf, state, result, runvars>>

NextRun ==
    \/ eval_cmdline_begin
    \/ eval_cmdline_bftw
    \/ bftw_callback
    \/ bftw_return
    \/ bftw_error
    \/ eval_cmdline_return

SpecRun == InitRun /\ [][NextRun]_vars

\* Every soft limit, on one command line.
InitBudget ==
    /\ cl = Cmdline(ETrue, 0, DepthBound, FALSE, FALSE) @@ [roots |-> <<RootC>>]
    /\ pc = "start"
    /\ ftwbuf = NoEvent
    /\ state = NewState(NoEvent, [exists |-> FALSE])
    /\ result = "none"
    /\ rlimit \in Rlimits
    /\ nopenfd = 0
    /\ iroot = 0
    /\ retval = 0
    /\ calls = <<>>
    /\ pending = <<>>
    /\ hist = <<>>

SpecBudget == InitBudget /\ [][NextRun]_vars

(***************************************************************************)
(* Reading the record of the visit.                                        *)
(***************************************************************************)
L == state.log

Visited == pc \in {"returned", "crashed"}

RECURSIVE NodeAt(_, _)
NodeAt(e, pos) ==
    IF pos = <<>> THEN e
    ELSE NodeAt(IF Head(pos) = "l" THEN e.lhs ELSE e.rhs, Tail(pos))

IsCall(i, fn) == i \in 1..Len(L) /\ L[i].ev = "call" /\ L[i].fn = fn

\* Call entry i is a call of fn on a node whose evaluator is fn.
IsCallOnOwn(i, fn) == IsCall(i, fn) /\ NodeAt(cl.expr, L[i].pos).eval = fn

IsRetOf(j, i) ==
    /\ j \in 1..Len(L)
    /\ L[j].ev = "ret" /\ L[j].fn = L[i].fn /\ L[j].pos = L[i].pos /\ L[j].lvl = L[i].lvl

\* Entry j is the call of child c ("l" or "r") of the node call i was made on,
\* made on that child.
IsChildCall(j, i, c) ==
    /\ j \in 1..Len(L)
    /\ L[j].ev = "call"
    /\ L[j].lvl = L[i].lvl + 1
    /\ L[j].pos = Append(L[i].pos, c)
    /\ L[j].fn = NodeAt(cl.expr, L[j].pos).eval

Returned(i) == \E j \in (i + 1)..Len(L) : L[j].ev = "ret" /\ L[j].lvl = L[i].lvl

\* The return that ends call i.
RetOf(i) ==
    CHOOSE j \in (i + 1)..Len(L) :
        /\ L[j].ev = "ret" /\ L[j].lvl = L[i].lvl
        /\ \A k \in (i + 1)..(j - 1) : ~(L[k].ev = "ret" /\ L[k].lvl = L[i].lvl)

\* The assignments to state->action made from entry a to entry b.
Sets(a, b) == {k \in a..b : L[k].ev = "set"}

LastOf(S) == CHOOSE k \in S : \A m \in S : m <= k

\* The call that entry k happens in: the last call before k still open at k.
Encl(k) ==
    LastOf({i \in 1..(k - 1) :
              L[i].ev = "call" /\ ~\E j \in (i + 1)..(k - 1) : IsRetOf(j, i)})

Evaluated == \E i \in 1..Len(L) : L[i].ev = "call"

NoEffect == \A i \in 1..Len(L) : L[i].ev \notin {"call", "stdout", "unlinkat"}

Hidden0 == CharAt(ftwbuf.path, ftwbuf.nameoff) = "."

(***************************************************************************)
(* C1.  Evaluating NOT(rhs) evaluates rhs on rhs's own node and returns    *)
(* the negation of that result, and the directive afterwards is the one    *)
(* rhs's evaluation leaves.  Stated for a NOT at the root of the tree of   *)
(* an evaluated visit: the visit ends as the evaluation of rhs on its own  *)
(* node, from the context the callback built, ends (returning or not),     *)
(* with the negated result and with the same directive.                    *)
(***************************************************************************)
\* The event and the file as the callback received them.
ftwbuf0 ==
    [ftwbuf EXCEPT !.statbuf = IF @ = "&state->statbuf" THEN "NULL" ELSE @]

fs0 == [state.fs EXCEPT !.exists = TRUE]

\* rhs's evaluator run on rhs's own node.
RhsOnItsNode ==
    CallPtr(cl.expr.rhs, cl.expr.rhs, <<"r">>, 2, Preset(NewState(ftwbuf0, fs0)))

C1_NotNegatesRhs ==
    (Visited /\ cl.expr.eval = "eval_not" /\ Evaluated) =>
        /\ state.crashed <=> RhsOnItsNode.crashed
        /\ ~state.crashed =>
              /\ state.ret = ~RhsOnItsNode.ret
              /\ result = RhsOnItsNode.action

(***************************************************************************)
(* C2.  AND and OR short-circuit: after the call of eval_and/eval_or comes *)
(* the call of lhs; when lhs returns the deciding value (false for AND,    *)
(* true for OR) the combinator returns it at once; otherwise the call of   *)
(* rhs comes next, and when it returns the combinator returns rhs's        *)
(* result at once.                                                         *)
(***************************************************************************)
ShortCircuits(i, decides) ==
    /\ IsChildCall(i + 1, i, "l")
    /\ Returned(i + 1) =>
          LET r == RetOf(i + 1)
          IN IF L[r].res = decides
             THEN /\ IsRetOf(r + 1, i)
                  /\ L[r + 1].res = decides
                  /\ L[r + 1].act = L[r].act
             ELSE /\ IsChildCall(r + 1, i, "r")
                  /\ Returned(r + 1) =>
                        LET m == RetOf(r + 1)
                        IN /\ IsRetOf(m + 1, i)
                           /\ L[m + 1].res = L[m].res

C2_AndOrShortCircuit ==
    Visited =>
        \A i \in 1..Len(L) :
            /\ IsCallOnOwn(i, "eval_and") => ShortCircuits(i, FALSE)
            /\ IsCallOnOwn(i, "eval_or") => ShortCircuits(i, TRUE)

\* One visit in which an AND was decided by its false lhs (its rhs, quit,
\* did not run), an OR by its true lhs (its rhs, delete, did not run), and
\* an OR with a false lhs went on to its rhs.
C2_Witness ==
    /\ pc = "returned"
    /\ IsCallOnOwn(1, "eval_or")
    /\ IsCallOnOwn(2, "eval_and")
    /\ NodeAt(cl.expr, <<"l", "r">>).eval = "eval_quit"
    /\ IsRetOf(5, 2) /\ ~L[5].res
    /\ IsCallOnOwn(6, "eval_or")
    /\ NodeAt(cl.expr, <<"r", "r">>).eval = "eval_delete"
    /\ IsRetOf(9, 6) /\ L[9].res
    /\ IsRetOf(10, 1) /\ L[10].res
    /\ result = BFTW_CONTINUE

(***************************************************************************)
(* C3.  COMMA(lhs, rhs): after the call of eval_comma comes the call of    *)
(* lhs; when lhs returns, whatever it returns, the call of rhs comes next; *)
(* when rhs returns, COMMA returns at once with rhs's result; and when     *)
(* both sides assigned the directive, the directive COMMA leaves is the    *)
(* one rhs assigned last.                                                  *)
(***************************************************************************)
C3_CommaEvaluatesBoth ==
    Visited =>
        \A i \in 1..Len(L) :
            IsCallOnOwn(i, "eval_comma") =>
                /\ IsChildCall(i + 1, i, "l")
                /\ Returned(i + 1) =>
                      LET r == RetOf(i + 1)
                      IN /\ IsChildCall(r + 1, i, "r")
                         /\ Returned(r + 1) =>
                               LET m == RetOf(r + 1)
                               IN /\ IsRetOf(m + 1, i)
                                  /\ L[m + 1].res = L[m].res
                                  /\ (Sets(i + 1, r) # {} /\ Sets(r + 1, m) # {}) =>
                                        L[m + 1].act = L[LastOf(Sets(r + 1, m))].arg

\* COMMA at the root, lhs returned false or assigned one directive, rhs
\* assigned another, and COMMA returned.
C3_Witness ==
    /\ pc = "returned"
    /\ IsCallOnOwn(1, "eval_comma")
    /\ LET r == RetOf(2)
           m == RetOf(r + 1)
       IN /\ Sets(2, r) # {} /\ Sets(r + 1, m) # {}
          /\ L[r].act # L[m].act
          /\ result = L[m].act

(***************************************************************************)
(* C4.  Depth-first flag: a directory at a depth below maxdepth and not    *)
(* below mindepth has the expression evaluated exactly on the post-order   *)
(* event when the flag is set and exactly on the pre-order event when it   *)
(* is not; an entry that is neither a directory nor an error, at a depth   *)
(* within [mindepth, maxdepth], has it evaluated exactly on the pre-order  *)
(* event, whatever the flag.                                               *)
(***************************************************************************)
C4_DepthFirstPhase ==
    Visited =>
        /\ (/\ ftwbuf.typeflag = BFTW_DIR
            /\ ftwbuf.depth < cl.maxdepth
            /\ ftwbuf.depth >= cl.mindepth) =>
               (Evaluated <=>
                   ftwbuf.visit = (IF cl.depth_flag THEN BFTW_POST ELSE BFTW_PRE))
        /\ (/\ ftwbuf.typeflag \notin {BFTW_DIR, BFTW_ERROR}
            /\ ftwbuf.depth >= cl.mindepth
            /\ ftwbuf.depth <= cl.maxdepth) =>
               (Evaluated <=> ftwbuf.visit = BFTW_PRE)

\* With the flag set, a directory below maxdepth was evaluated on its
\* post-order event.
C4_Witness ==
    /\ pc = "returned"
    /\ cl.depth_flag
    /\ ftwbuf.typeflag = BFTW_DIR
    /\ ftwbuf.depth < cl.maxdepth /\ ftwbuf.depth >= cl.mindepth
    /\ ftwbuf.visit = BFTW_POST
    /\ Evaluated

(***************************************************************************)
(* C5.  An event at a depth of maxdepth or more never returns continue, in *)
(* either visit phase and whatever the expression does.                    *)
(***************************************************************************)
C5_AtMaxdepthNeverContinue ==
    (pc = "returned" /\ ftwbuf.depth >= cl.maxdepth) => result # BFTW_CONTINUE

\* An entry exactly at maxdepth was evaluated by a tree that assigns no
\* directive, and skip-subtree was returned.
C5_Witness ==
    /\ pc = "returned"
    /\ ftwbuf.depth = cl.maxdepth
    /\ Evaluated
    /\ Sets(1, Len(L)) = {}
    /\ result = BFTW_SKIP_SUBTREE

(***************************************************************************)
(* C6.  Depth bounds gate evaluation.  As claimed: an event deeper than    *)
(* maxdepth or shallower than mindepth never evaluates the expression (no  *)
(* evaluator runs, nothing is written to stdout, nothing is removed), and  *)
(* an event shallower than both mindepth and maxdepth returns continue.    *)
(***************************************************************************)
C6_DepthGate_AsClaimed ==
    pc = "returned" =>
        /\ (ftwbuf.depth > cl.maxdepth \/ ftwbuf.depth < cl.mindepth) => NoEffect
        /\ (ftwbuf.depth < cl.mindepth /\ ftwbuf.depth < cl.maxdepth) =>
               result = BFTW_CONTINUE

(***************************************************************************)
(* C6, amended.  An event deeper than maxdepth or shallower than mindepth  *)
(* never evaluates the expression, and an event that is not the error      *)
(* sentinel and is shallower than both mindepth and maxdepth returns       *)
(* continue.                                                               *)
(***************************************************************************)
C6_DepthGate ==
    pc = "returned" =>
        /\ (ftwbuf.depth > cl.maxdepth \/ ftwbuf.depth < cl.mindepth) => NoEffect
        /\ (/\ ftwbuf.typeflag # BFTW_ERROR
            /\ ftwbuf.depth < cl.mindepth
            /\ ftwbuf.depth < cl.maxdepth) =>
               result = BFTW_CONTINUE

\* An entry above mindepth, on the phase that would otherwise be evaluated,
\* under a tree that would have assigned a directive.
C6_Witness ==
    /\ pc = "returned"
    /\ ftwbuf.typeflag = BFTW_REG
    /\ ftwbuf.visit = BFTW_PRE
    /\ ftwbuf.depth < cl.mindepth /\ ftwbuf.depth < cl.maxdepth
    /\ cl.expr.eval = "eval_prune"
    /\ L = <<>>
    /\ result = BFTW_CONTINUE

(***************************************************************************)
(* C7.  If the removal of a delete leaf fails during a visit, the          *)
(* directive the callback returns for that visit is stop, whatever else    *)
(* the tree evaluates afterwards.                                          *)
(***************************************************************************)
C7_FailedDeleteStops ==
    (pc = "returned" /\ \E i \in 1..Len(L) : L[i].ev = "unlinkat" /\ ~L[i].res) =>
        result = BFTW_STOP

(***************************************************************************)
(* C8.  Every evaluation of the delete leaf returns true; it makes one     *)
(* removal call, with the directory flag iff the entry is a directory;     *)
(* when the removal fails it emits one diagnostic and assigns stop, and    *)
(* when the removal succeeds it emits nothing and leaves the directive as  *)
(* it was.                                                                 *)
(***************************************************************************)
C8_DeleteLeaf ==
    Visited =>
        \A i \in 1..Len(L) :
            IsCall(i, "eval_delete") =>
                /\ L[i + 1].ev = "unlinkat"
                /\ L[i + 1].arg = "AT_REMOVEDIR" <=> ftwbuf.typeflag = BFTW_DIR
                /\ L[i + 1].arg \in {"AT_REMOVEDIR", "0"}
                /\ IF L[i + 1].res
                   THEN /\ IsRetOf(i + 2, i)
                        /\ L[i + 2].res
                        /\ L[i + 2].act = L[i].act
                   ELSE /\ L[i + 2].ev = "stderr"
                        /\ L[i + 3].ev = "set" /\ L[i + 3].arg = BFTW_STOP
                        /\ IsRetOf(i + 4, i)
                        /\ L[i + 4].res
                        /\ L[i + 4].act = BFTW_STOP

\* A directory's removal failed in a visit that had no other directive.
C8_Witness ==
    /\ pc = "returned"
    /\ ftwbuf.typeflag = BFTW_DIR
    /\ IsCall(1, "eval_delete")
    /\ L[2].arg = "AT_REMOVEDIR" /\ ~L[2].res
    /\ L[1].act = BFTW_CONTINUE
    /\ IsRetOf(5, 1) /\ L[5].res
    /\ result = BFTW_STOP

(***************************************************************************)
(* C9.  no-hidden.  As claimed: on every entry whose basename starts with  *)
(* ".", at whatever offset the basename lies (0 included), it assigns      *)
(* skip-subtree and returns false; on any other entry it returns true and  *)
(* leaves the directive as it was.                                         *)
(***************************************************************************)
NohiddenActs(i, j, hidden) ==
    IF hidden
    THEN ~L[j].res /\ L[j].act = BFTW_SKIP_SUBTREE /\ Sets(i, j) # {}
    ELSE L[j].res /\ L[j].act = L[i].act /\ Sets(i, j) = {}

C9_Nohidden_AsClaimed ==
    Visited =>
        \A i \in 1..Len(L) :
            (IsCall(i, "eval_nohidden") /\ Returned(i)) =>
                NohiddenActs(i, RetOf(i), Hidden0)

(***************************************************************************)
(* C9, amended.  On an entry whose basename starts with "." and lies at an *)
(* offset greater than 0, no-hidden assigns skip-subtree and returns       *)
(* false; on every other entry (a basename not starting with ".", or one   *)
(* at offset 0) it returns true and leaves the directive as it was.        *)
(***************************************************************************)
C9_Nohidden ==
    Visited =>
        \A i \in 1..Len(L) :
            (IsCall(i, "eval_nohidden") /\ Returned(i)) =>
                NohiddenActs(i, RetOf(i), ftwbuf.nameoff > 0 /\ Hidden0)

\* no-hidden ran on a dot entry below its root: skip-subtree, false.
C9_Witness ==
    /\ pc = "returned"
    /\ ftwbuf.nameoff > 0 /\ Hidden0
    /\ IsCallOnOwn(1, "eval_nohidden")
    /\ L[1].act = BFTW_CONTINUE
    /\ ~L[Len(L)].res
    /\ result = BFTW_SKIP_SUBTREE

(***************************************************************************)
(* C10.  Directive frame.  Within a visit the directive changes only at an *)
(* assignment, and an assignment happens only in prune, in quit, or in     *)
(* delete right after its removal failed; prune reached from no-hidden     *)
(* runs only on a hidden entry; the value assigned is never continue; the  *)
(* other leaves return with the directive they were called with, and a     *)
(* combinator makes no assignment of its own.                              *)
(***************************************************************************)
Writers == {"eval_prune", "eval_delete", "eval_quit"}

C10_DirectiveFrame ==
    Visited =>
        /\ \A k \in 1..Len(L) :
              /\ (k > 1 /\ L[k].act # L[k - 1].act) => L[k].ev = "set"
              /\ L[k].ev = "set" =>
                    /\ L[k].arg # BFTW_CONTINUE
                    /\ L[Encl(k)].fn \in Writers
                    /\ L[Encl(k)].fn = "eval_delete" =>
                          (L[k - 2].ev = "unlinkat" /\ ~L[k - 2].res)
              /\ (IsCall(k, "eval_prune") /\ k > 1 /\ IsCall(Encl(k), "eval_nohidden")) =>
                    (ftwbuf.nameoff > 0 /\ Hidden0)
              /\ (L[k].ev = "call" /\ Returned(k)
                  /\ L[k].fn \notin Writers \cup
                        {"eval_nohidden", "eval_not", "eval_and", "eval_or", "eval_comma"}) =>
                    (L[RetOf(k)].act = L[k].act /\ Sets(k, RetOf(k)) = {})
        /\ (pc = "returned" /\ Evaluated) => result = L[Len(L)].act

\* A combinator tree in which a leaf that assigns nothing ran after one that
\* assigned skip-subtree, and the directive stayed.
C10_Witness ==
    /\ pc = "returned"
    /\ IsCallOnOwn(1, "eval_comma")
    /\ \E k \in 2..Len(L) : IsCall(k, "eval_prune") /\ IsCall(Encl(k), "eval_nohidden")
    /\ \E k \in 1..Len(L) : IsCall(k, "eval_print0") /\ L[k].act = BFTW_SKIP_SUBTREE
    /\ L[1].act = BFTW_CONTINUE
    /\ result = BFTW_SKIP_SUBTREE

(***************************************************************************)
(* C11.  An event whose type is the error sentinel returns skip-subtree    *)
(* after exactly one diagnostic and with no expression evaluation, at      *)
(* every depth, in either phase, under every flag setting and tree.        *)
(***************************************************************************)
C11_ErrorEvent ==
    (Visited /\ ftwbuf.typeflag = BFTW_ERROR) =>
        /\ pc = "returned"
        /\ result = BFTW_SKIP_SUBTREE
        /\ Len(L) = 1
        /\ L[1].ev = "stderr" /\ L[1].arg = "print_error"

\* An error event on the phase and at a depth that would be evaluated,
\* under a tree that would have assigned stop.
C11_Witness ==
    /\ pc = "returned"
    /\ ftwbuf.typeflag = BFTW_ERROR
    /\ ftwbuf.visit = BFTW_PRE
    /\ ftwbuf.depth >= cl.mindepth /\ ftwbuf.depth < cl.maxdepth
    /\ cl.expr.eval = "eval_quit"
    /\ result = BFTW_SKIP_SUBTREE

(***************************************************************************)
(* C16.  Within one visit fstatat() is called at most once, and never when *)
(* the event already supplies a status; a failed fetch is diagnosed once   *)
(* and not retried by later leaves of the same visit.                      *)
(***************************************************************************)
Fetches == {k \in 1..Len(L) : L[k].ev = "fstatat"}

FetchDiagnostics == {k \in 1..Len(L) : L[k].ev = "stderr" /\ L[k].arg = "fstatat()"}

C16_StatusFetchedOnce ==
    Visited =>
        /\ Cardinality(Fetches) <= 1
        /\ Cardinality(FetchDiagnostics) <= 1
        /\ ftwbuf0.statbuf # "NULL" => Fetches = {}

(***************************************************************************)
(* C17.  Per-visit outcomes.  As claimed: no visit both receives the       *)
(* depth-exceeded skip-subtree preset and has the expression evaluated     *)
(* (an event at depth equal to maxdepth included), an error event does     *)
(* neither, and every visit yields one directive.                          *)
(***************************************************************************)
Directives == {BFTW_CONTINUE, BFTW_SKIP_SUBTREE, BFTW_STOP}

\* The directive the context held before the expression was looked at.
ActionBeforeEval == IF Evaluated THEN L[1].act ELSE state.action

PresetApplied ==
    ftwbuf.typeflag # BFTW_ERROR /\ ActionBeforeEval = BFTW_SKIP_SUBTREE

C17_Outcomes_AsClaimed ==
    pc = "returned" =>
        /\ ~(PresetApplied /\ Evaluated)
        /\ ftwbuf.typeflag = BFTW_ERROR => ~Evaluated
        /\ result \in Directives

(***************************************************************************)
(* C17, amended.  An error event is neither preset nor evaluated; the      *)
(* preset and the evaluation fall on the same visit only for an event at   *)
(* depth equal to maxdepth; an event deeper than maxdepth is preset and    *)
(* not evaluated; and every visit the callback returns from yields one     *)
(* directive.                                                              *)
(***************************************************************************)
C17_Outcomes ==
    Visited =>
        /\ ftwbuf.typeflag = BFTW_ERROR => (~Evaluated /\ ~PresetApplied)
        /\ (PresetApplied /\ Evaluated) => ftwbuf.depth = cl.maxdepth
        /\ (ftwbuf.typeflag # BFTW_ERROR /\ ftwbuf.depth > cl.maxdepth) =>
               (PresetApplied /\ ~Evaluated)
        /\ pc = "returned" => result \in Directives

\* An event exactly at maxdepth was preset and then evaluated.
C17_Witness ==
    /\ pc = "returned"
    /\ ftwbuf.depth = cl.maxdepth
    /\ PresetApplied
    /\ Evaluated
    /\ result = BFTW_SKIP_SUBTREE

(***************************************************************************)
(* C19.  Of the pre-order and the post-order event of one entry (same      *)
(* type, same depth), the expression is evaluated on at most one; on       *)
(* exactly one when the type is not the error sentinel and the depth is    *)
(* within [mindepth, maxdepth]; on neither otherwise.                      *)
(***************************************************************************)
OtherVisit == IF ftwbuf.visit = BFTW_PRE THEN BFTW_POST ELSE BFTW_PRE

\* Whether the callback evaluates the expression on the entry's other event.
EvaluatedOnOther ==
    LET st == Callback([ftwbuf0 EXCEPT !.visit = OtherVisit], fs0)
    IN \E k \in 1..Len(st.log) : st.log[k].ev = "call"

InDepthRange ==
    /\ ftwbuf.typeflag # BFTW_ERROR
    /\ ftwbuf.depth >= cl.mindepth
    /\ ftwbuf.depth <= cl.maxdepth

C19_OnePhaseEvaluated ==
    Visited =>
        /\ ~(Evaluated /\ EvaluatedOnOther)
        /\ InDepthRange => (Evaluated \/ EvaluatedOnOther)
        /\ ~InDepthRange => (~Evaluated /\ ~EvaluatedOnOther)

\* A directory below maxdepth under the flag: not evaluated on the pre-order
\* event that was visited, evaluated on its post-order event.
C19_Witness ==
    /\ pc = "returned"
    /\ cl.depth_flag
    /\ ftwbuf.typeflag = BFTW_DIR
    /\ ftwbuf.visit = BFTW_PRE
    /\ InDepthRange /\ ftwbuf.depth < cl.maxdepth
    /\ ~Evaluated
    /\ EvaluatedOnOther

(***************************************************************************)
(* C20.  After the callback returns, the event's status reference does not *)
(* refer to the status buffer of the context that has gone.                *)
(***************************************************************************)
C20_NoReferenceToContext ==
    pc = "returned" => ftwbuf.statbuf # "&state->statbuf"

(***************************************************************************)
(* Reading the record of a run of eval_cmdline.                            *)
(***************************************************************************)
H == hist

\* Visit b is of an entry below the directory of visit a, in the same
\* traversal.
Below(b, a) ==
    /\ H[b].root = H[a].root
    /\ IsDescendant(H[b].path, H[a].path)

\* Visit a evaluated the expression on a directory above maxdepth and
\* returned skip-subtree: prune, or no-hidden on a hidden directory, acted.
Pruned(a) ==
    /\ H[a].typeflag = BFTW_DIR
    /\ H[a].depth < cl.maxdepth
    /\ H[a].evaluated
    /\ H[a].result = BFTW_SKIP_SUBTREE

(***************************************************************************)
(* C12.  The engine is invoked once for every root, in list order, whether *)
(* or not earlier invocations failed; the value eval_cmdline returns is    *)
(* nonzero iff some invocation failed, whatever the visits returned.       *)
(***************************************************************************)
C12_RootDriver ==
    /\ Len(calls) <= Len(cl.roots)
    /\ \A k \in 1..Len(calls) : calls[k].root = cl.roots[k]
    /\ pc \in {"loop", "bftw"} => Len(calls) = iroot
    /\ pc = "done" =>
          /\ Len(calls) = Len(cl.roots)
          /\ retval # 0 <=> \E k \in 1..Len(calls) : calls[k].rc # 0

\* Two roots: the first invocation failed, the second succeeded after its
\* entries were evaluated, and the run reports failure.
C12_Witness ==
    /\ pc = "done"
    /\ Len(calls) = 2
    /\ calls[1].rc # 0
    /\ calls[2].rc = 0
    /\ retval # 0
    /\ \E b \in 1..Len(H) : H[b].root = 2 /\ H[b].evaluated

(***************************************************************************)
(* C13.  Once a visit has returned stop, no later visit of the run         *)
(* evaluates the expression, the visits under the following roots          *)
(* included.                                                               *)
(***************************************************************************)
C13_StopEntirely ==
    \A a, b \in 1..Len(H) :
        (a < b /\ H[a].result = BFTW_STOP) => ~H[b].evaluated

(***************************************************************************)
(* C14.  A readable, finite soft limit L > 3 gives the budget L - 3; a     *)
(* failed query or an unlimited soft limit gives 4093.                     *)
(***************************************************************************)
\* L - 3, as the pair (hi, lo) of the value hi * 2^31 + lo.
Minus3(rl) ==
    IF rl.lo >= 3
    THEN [hi |-> rl.hi, lo |-> rl.lo - 3]
    ELSE [hi |-> rl.hi - 1, lo |-> rl.lo + (INT_MAX - 2)]

C14_BudgetInference ==
    pc # "start" =>
        IF rlimit.ok /\ ~rlimit.inf
        THEN (rlimit.hi > 0 \/ rlimit.lo > 3) =>
                 (Minus3(rlimit).hi = 0 /\ nopenfd = Minus3(rlimit).lo)
        ELSE nopenfd = 4093

(***************************************************************************)
(* C15.  The budget is at least 1 for every soft limit the query can       *)
(* report: 0, values of 3 or less, and finite values beyond the range of   *)
(* int.                                                                    *)
(***************************************************************************)
C15_BudgetUsable ==
    pc # "start" => nopenfd >= 1

(***************************************************************************)
(* C18.  As claimed: when a visit of a directory above maxdepth evaluates  *)
(* the expression and returns skip-subtree, no entry below that directory  *)
(* has the expression evaluated in that traversal, with the depth-first    *)
(* flag unset and with it set.                                             *)
(***************************************************************************)
C18_PruneHonored_AsClaimed ==
    \A a, b \in 1..Len(H) :
        (Pruned(a) /\ Below(b, a)) => ~H[b].evaluated

(***************************************************************************)
(* C18, amended.  With the depth-first flag unset, no entry below a pruned *)
(* directory has the expression evaluated in that traversal.  With the     *)
(* flag set, a directory above maxdepth is evaluated on its post-order     *)
(* event only, after the entries below it: skip-subtree prunes nothing,    *)
(* and no entry below the directory is visited afterwards.                 *)
(***************************************************************************)
C18_PruneHonored ==
    \A a \in 1..Len(H) :
        Pruned(a) =>
            /\ H[a].visit = (IF cl.depth_flag THEN BFTW_POST ELSE BFTW_PRE)
            /\ \A b \in 1..Len(H) :
                  Below(b, a) => IF cl.depth_flag THEN b < a ELSE ~H[b].evaluated

\* Flag unset: root a is pruned on its pre-order event and the next visit
\* is its post-order event, the entries below it never visited.
C18_Witness ==
    /\ ~cl.depth_flag
    /\ \E a \in 1..Len(H) :
          /\ Pruned(a)
          /\ H[a].path = RootA
          /\ H[a].visit = BFTW_PRE
          /\ a < Len(H)
          /\ H[a + 1].path = RootA
          /\ H[a + 1].visit = BFTW_POST
          /\ \A b \in 1..Len(H) : ~Below(b, a)

====
